---- MODULE Spec2Model ----
(***************************************************************************)
(* A model of the Codex CLI MCP wrapper (server.js): the JSON-RPC line     *)
(* dispatcher, the three tool command builders, the subprocess runner and  *)
(* the line-oriented event extractor.  One action per event-loop callback: *)
(* an inbound line, a line of a subprocess's stdout, a subprocess 'error'  *)
(* event and a subprocess 'close' event.  A callback runs together with    *)
(* the promise continuations (microtasks) it triggers, as Node runs them   *)
(* before the next callback.                                               *)
(***************************************************************************)
EXTENDS Integers, Sequences, FiniteSets, TLC

\* ------------------------------------------------------------------ bounds
\* Inbound lines the model reads.
MaxRequests == 2
\* Inbound lines read under SpecSingle, which draws them from every shape of
\* inbound frame (Spec draws them from CoreFrames).
MaxSingle == 1
\* Stdout lines delivered over all subprocesses together.
MaxLines == 2
\* Stdout lines delivered under SpecRun, which draws them from RunLines.
MaxRunLines == 3
\* Largest value the clock (Date.now()) takes.
MaxClock == 2

\* ------------------------------------------------------------ state
VARIABLES
  reqs,      \* the inbound messages read so far, in arrival order
  procs,     \* procs[i]: the subprocess run of reqs[i] (NoProc if it has none)
  out,       \* the frames written to the outbound channel, in order
  sessions,  \* the session registry: identifier -> [created, initialPrompt]
  now        \* the last value Date.now() returned

vars == <<reqs, procs, out, sessions, now>>

\* ------------------------------------------------------------ JS values
\* JavaScript's undefined (a parameter the caller did not supply).
Undefined == "<undefined>"
\* JavaScript's null (sessionId before any capture).
Null == "<null>"

\* JavaScript truthiness of a string-or-missing value.
Truthy(v) == v # Undefined /\ v # Null /\ v # ""

\* args.k for an arguments object: a record holding the supplied keys only.
Get(args, k) == IF k \in DOMAIN args THEN args[k] ELSE Undefined

\* ------------------------------------------------------------ strings
WhiteSpace == {" ", "\t", "\r", "\n"}

CharAt(s, i) == IF i >= 1 /\ i <= Len(s) THEN SubSeq(s, i, i) ELSE ""

RECURSIVE TrimLeft(_)
TrimLeft(s) ==
  IF Len(s) > 0 /\ CharAt(s, 1) \in WhiteSpace
  THEN TrimLeft(SubSeq(s, 2, Len(s)))
  ELSE s

RECURSIVE TrimRight(_)
TrimRight(s) ==
  IF Len(s) > 0 /\ CharAt(s, Len(s)) \in WhiteSpace
  THEN TrimRight(SubSeq(s, 1, Len(s) - 1))
  ELSE s

\* String.prototype.trim
Trim(s) == TrimRight(TrimLeft(s))

\* ------------------------------------------------------------ JSON.parse
\* JSON.parse on the fragment of JSON the subprocess's event lines use:
\* objects whose members are strings or objects, no white space between
\* tokens, no escapes inside strings.  Any other text fails to parse.
\* A parsed value is [t |-> "str", v |-> text] or [t |-> "obj", v |-> members].
JsUndefined == [t |-> "undef", v |-> Undefined]
JsStr(s) == [t |-> "str", v |-> s]
JsObj(m) == [t |-> "obj", v |-> m]
ParseFail == [ok |-> FALSE, val |-> JsUndefined, pos |-> 0]

RECURSIVE FindQuote(_, _)
\* The position of the first double quote of s at or after i, 0 if none.
FindQuote(s, i) ==
  IF i > Len(s) THEN 0
  ELSE IF CharAt(s, i) = "\"" THEN i
  ELSE FindQuote(s, i + 1)

\* A string literal starting at i.
ParseString(s, i) ==
  IF CharAt(s, i) # "\"" THEN ParseFail
  ELSE LET j == FindQuote(s, i + 1) IN
       IF j = 0 THEN ParseFail
       ELSE [ok |-> TRUE, val |-> JsStr(SubSeq(s, i + 1, j - 1)), pos |-> j + 1]

RECURSIVE ParseValue(_, _)
RECURSIVE ParseMembers(_, _, _)

\* The members of an object from position i on, acc the members read so far
\* (a repeated key keeps its last value).
ParseMembers(s, i, acc) ==
  LET k == ParseString(s, i) IN
  IF ~k.ok \/ CharAt(s, k.pos) # ":" THEN ParseFail
  ELSE LET v == ParseValue(s, k.pos + 1) IN
       IF ~v.ok THEN ParseFail
       ELSE LET key == k.val.v
                acc2 == [x \in DOMAIN acc \cup {key} |->
                           IF x = key THEN v.val ELSE acc[x]]
            IN  IF CharAt(s, v.pos) = ","
                THEN ParseMembers(s, v.pos + 1, acc2)
                ELSE IF CharAt(s, v.pos) = "}"
                THEN [ok |-> TRUE, val |-> JsObj(acc2), pos |-> v.pos + 1]
                ELSE ParseFail

ParseValue(s, i) ==
  IF CharAt(s, i) = "\"" THEN ParseString(s, i)
  ELSE IF CharAt(s, i) = "{"
  THEN IF CharAt(s, i + 1) = "}"
       THEN [ok |-> TRUE, val |-> JsObj(<<>>), pos |-> i + 2]
       ELSE ParseMembers(s, i + 1, <<>>)
  ELSE ParseFail

\* JSON.parse(text): ok is FALSE where JSON.parse throws.
JsonParse(text) ==
  LET r == ParseValue(text, 1) IN
  IF r.ok /\ r.pos = Len(text) + 1 THEN r ELSE ParseFail

\* json.k (undefined on a missing key and on a value that is no object).
Field(json, k) ==
  IF json.t = "obj" /\ k \in DOMAIN json.v THEN json.v[k] ELSE JsUndefined

\* json.k === text
FieldIs(json, k, text) ==
  LET f == Field(json, k) IN f.t = "str" /\ f.v = text

\* Truthiness of a parsed value.
JsTruthy(x) == (x.t = "str" /\ x.v # "") \/ x.t = "obj"

\* The parsed value as the text a template literal or a Map key shows.
JsText(x) == IF x.t = "str" THEN x.v ELSE "[object Object]"

\* ------------------------------------------------------------ constants
\* The length of the identifier the fallback pattern captures.
UuidLen == 36
\* JSON-RPC error codes.
MethodNotFound == -32601
InvalidParams == -32602
InternalError == -32603
\* The exit status a 'close' event carries when the command could not start.
SpawnFailCode == -2

\* Two session identifiers the external command may report.
U1 == "019a7661-3643-7ac3-aeb9-098a910935fb"
U2 == "019a7661-3643-7ac3-aeb9-098a910935fc"

\* process.cwd()
ProcessCwd == "<process.cwd()>"

\* ------------------------------------------------------------ outbound frames
\* Mutant of sendResponse: the id is read from a variable shared by all
\* requests, which holds the id of the message read last.
sendResponseLatest(id, result) ==
  [jsonrpc |-> "2.0", id |-> Len(reqs), result |-> result]

sendResponse(id, result) == [jsonrpc |-> "2.0", id |-> id, result |-> result]

\* Mutant of sendError: every error frame carries the internal-error code.
sendErrorOneCode(id, code, message) ==
  [jsonrpc |-> "2.0", id |-> id, error |-> [code |-> -32603, message |-> message]]

sendError(id, code, message) ==
  [jsonrpc |-> "2.0", id |-> id, error |-> [code |-> code, message |-> message]]

IsResult(fr) == "result" \in DOMAIN fr
IsError(fr) == "error" \in DOMAIN fr

handleInitialize(message) ==
  sendResponse(message.id,
    [protocolVersion |-> "2024-11-05",
     capabilities |-> [tools |-> <<>>, resources |-> <<>>],
     serverInfo |-> [name |-> "codex-cli-wrapper", version |-> "1.1.1"]])

handleToolsList(message) ==
  sendResponse(message.id,
    [tools |-> << [name |-> "codex", required |-> <<"prompt">>],
                  [name |-> "codex-reply", required |-> <<"sessionId", "prompt">>],
                  [name |-> "codex-review", required |-> <<"mode">>] >>])

\* The result of a successful tool call: the display text, then the annotation.
ToolResult(result) ==
  [content |-> << [type |-> "text", text |-> result.output],
                  [type |-> "text",
                   text |-> "\n[SESSION_ID: " \o result.sessionId \o "]"] >>]

\* ------------------------------------------------------------ command builders
\* What a builder does before it returns: it throws, it returns a rejected
\* promise, or it calls runCodexJsonl(cliArgs, {cwd, label}).
Throws(message) == [kind |-> "throw", message |-> message]
Rejects(message) == [kind |-> "reject", message |-> message]
Runs(cliArgs, cwd, label) ==
  [kind |-> "run", cliArgs |-> cliArgs, cwd |-> cwd, label |-> label]

\* Reading a property of undefined.
TypeErrorOn(k) == "Cannot read properties of undefined (reading '" \o k \o "')"

\* Mutant of StartCliArgs: the sandbox flag is pushed only without a cwd.
StartCliArgsNoSandbox(a) ==
  <<"exec", Get(a, "prompt")>>
    \o (IF Truthy(Get(a, "cwd")) THEN <<"-C", Get(a, "cwd")>>
        ELSE <<"--sandbox", "read-only">>)
    \o <<"--json">>

\* The argument vector runCodexStart builds.
StartCliArgs(a) ==
  <<"exec", Get(a, "prompt"), "--sandbox", "read-only">>
    \o (IF Truthy(Get(a, "cwd")) THEN <<"-C", Get(a, "cwd")>> ELSE <<>>)
    \o <<"--json">>

runCodexStart(args) ==
  IF ~args.defined THEN Throws(TypeErrorOn("prompt"))
  ELSE Runs(StartCliArgs(args.v), Get(args.v, "cwd"), "Codex")

runCodexResume(sessionId, prompt) ==
  Runs(<<"exec", "--json", "resume", sessionId, prompt>>, Undefined, "Codex resume")

\* Mutant of BaseMissing: mode=base is not checked for its base.
BaseMissingNever(a) == FALSE

\* !args.base
BaseMissing(a) == ~Truthy(Get(a, "base"))

\* Mutant of ReviewPrefix: the JSON flag is pushed after the subcommand.
ReviewPrefixJsonLast(a) ==
  <<"exec">>
    \o (IF Truthy(Get(a, "cwd")) THEN <<"-C", Get(a, "cwd")>> ELSE <<>>)
    \o <<"review", "--json">>

\* The vector runCodexReview holds when it reaches the switch on args.mode.
ReviewPrefix(a) ==
  <<"exec">>
    \o (IF Truthy(Get(a, "cwd")) THEN <<"-C", Get(a, "cwd")>> ELSE <<>>)
    \o <<"--json", "review">>

\* The review option the switch on args.mode pushes, or the rejection.
ReviewMode(a, cliArgs) ==
  LET mode == Get(a, "mode") IN
  CASE mode = "uncommitted" ->
         Runs(cliArgs \o <<"--uncommitted">>, Get(a, "cwd"), "Codex review")
    [] mode = "base" ->
         IF BaseMissing(a) THEN Rejects("mode=base requires base")
         ELSE Runs(cliArgs \o <<"--base", Get(a, "base")>>, Get(a, "cwd"),
                   "Codex review")
    [] mode = "commit" ->
         IF ~Truthy(Get(a, "commit")) THEN Rejects("mode=commit requires commit")
         ELSE Runs(cliArgs \o <<"--commit", Get(a, "commit")>>, Get(a, "cwd"),
                   "Codex review")
    [] mode = "custom" ->
         IF ~Truthy(Get(a, "prompt")) \/ ~Truthy(Trim(Get(a, "prompt")))
         THEN Rejects("mode=custom requires prompt")
         ELSE Runs(cliArgs \o <<Trim(Get(a, "prompt"))>>, Get(a, "cwd"),
                   "Codex review")
    [] OTHER -> Rejects("Unknown review mode: " \o mode)

runCodexReview(args) ==
  IF ~args.defined \/ ~Truthy(Get(args.v, "mode"))
  THEN Rejects("codex-review requires mode")
  ELSE ReviewMode(args.v, ReviewPrefix(args.v))

ToolNames == {"codex", "codex-reply", "codex-review"}

\* The builder handleToolCall calls for a known tool name.
ToolPlan(name, args) ==
  CASE name = "codex" -> runCodexStart(args)
    [] name = "codex-reply" ->
         IF ~args.defined THEN Throws(TypeErrorOn("sessionId"))
         ELSE runCodexResume(Get(args.v, "sessionId"), Get(args.v, "prompt"))
    [] name = "codex-review" -> runCodexReview(args)

\* handleToolCall up to its first suspension: the destructuring of
\* message.params throws outside the try block ("uncaught"), or a response is
\* sent at once ("reply"), or a subprocess run begins ("run").
handleToolCall(message) ==
  IF ~message.params.defined THEN [kind |-> "uncaught"]
  ELSE LET name == message.params.name
           args == message.params.arguments
       IN  IF name \notin ToolNames
           THEN [kind |-> "reply",
                 frame |-> sendError(message.id, InvalidParams,
                                     "Unknown tool: " \o name)]
           ELSE LET plan == ToolPlan(name, args) IN
                IF plan.kind = "run"
                THEN [kind |-> "run", plan |-> plan]
                ELSE [kind |-> "reply",
                      frame |-> sendError(message.id, InternalError, plan.message)]

\* Mutant of OnInboundLine: a line that does not parse is answered with a
\* parse error.
OnInboundLineParseError(message) ==
  IF ~message.parses THEN <<sendError(message.id, -32700, "Parse error")>>
  ELSE CASE message.method = "initialize" -> <<handleInitialize(message)>>
         [] message.method = "initialized" -> <<>>
         [] message.method = "tools/list" -> <<handleToolsList(message)>>
         [] message.method = "tools/call" ->
              LET h == handleToolCall(message) IN
              IF h.kind = "reply" THEN <<h.frame>> ELSE <<>>
         [] OTHER -> <<sendError(message.id, MethodNotFound, "Method not found")>>

\* The frames the line handler writes before it returns or suspends.
OnInboundLine(message) ==
  IF ~message.parses THEN <<>>
  ELSE CASE message.method = "initialize" -> <<handleInitialize(message)>>
         [] message.method = "initialized" -> <<>>
         [] message.method = "tools/list" -> <<handleToolsList(message)>>
         [] message.method = "tools/call" ->
              LET h == handleToolCall(message) IN
              IF h.kind = "reply" THEN <<h.frame>> ELSE <<>>
         [] OTHER -> <<sendError(message.id, MethodNotFound, "Method not found")>>

\* ------------------------------------------------------------ event extractor
\* Mutant of CaptureSessionId: a captured identifier is never replaced.
CaptureFirstWins(prev, json) ==
  IF prev = Null
     /\ FieldIs(json, "type", "thread.started") /\ JsTruthy(Field(json, "thread_id"))
  THEN JsText(Field(json, "thread_id"))
  ELSE prev

\* sessionId after the parsed record json, prev its value before.
CaptureSessionId(prev, json) ==
  IF FieldIs(json, "type", "thread.started") /\ JsTruthy(Field(json, "thread_id"))
  THEN JsText(Field(json, "thread_id"))
  ELSE prev

\* Mutant of CaptureFinalMessage: the first agent message is kept.
CaptureFinalFirst(prev, json) ==
  IF prev = ""
     /\ FieldIs(json, "type", "item.completed")
     /\ FieldIs(Field(json, "item"), "type", "agent_message")
     /\ JsTruthy(Field(Field(json, "item"), "text"))
  THEN JsText(Field(Field(json, "item"), "text"))
  ELSE prev

\* finalMessage after the parsed record json, prev its value before.
CaptureFinalMessage(prev, json) ==
  IF FieldIs(json, "type", "item.completed")
     /\ FieldIs(Field(json, "item"), "type", "agent_message")
     /\ JsTruthy(Field(Field(json, "item"), "text"))
  THEN JsText(Field(Field(json, "item"), "text"))
  ELSE prev

\* Mutant of OnStdoutLine: a blank line is dropped before it is buffered.
OnStdoutLineSkipBlank(p, line) ==
  LET raw == p.rawOutput \o line \o "\n"
      trimmed == Trim(line)
      parsed == JsonParse(trimmed)
  IN  IF trimmed = ""
      THEN [p EXCEPT !.lines = Append(@, line)]
      ELSE IF ~parsed.ok
      THEN [p EXCEPT !.rawOutput = raw, !.lines = Append(@, line)]
      ELSE [p EXCEPT !.rawOutput = raw, !.lines = Append(@, line),
                     !.sessionId = CaptureSessionId(@, parsed.val),
                     !.finalMessage = CaptureFinalMessage(@, parsed.val)]

\* The closure variables of one runCodexJsonl call after stdout line `line`:
\* p is the run's record, of which rawOutput, sessionId and finalMessage change
\* (lines records what was delivered).
OnStdoutLine(p, line) ==
  LET raw == p.rawOutput \o line \o "\n"
      trimmed == Trim(line)
      parsed == JsonParse(trimmed)
  IN  IF trimmed = "" \/ ~parsed.ok
      THEN [p EXCEPT !.rawOutput = raw, !.lines = Append(@, line)]
      ELSE [p EXCEPT !.rawOutput = raw, !.lines = Append(@, line),
                     !.sessionId = CaptureSessionId(@, parsed.val),
                     !.finalMessage = CaptureFinalMessage(@, parsed.val)]

HexDash == {"0", "1", "2", "3", "4", "5", "6", "7", "8", "9",
            "a", "b", "c", "d", "e", "f", "-"}

RECURSIVE SkipDelims(_, _)
\* The first position at or after i whose character is neither " nor :.
SkipDelims(s, i) ==
  IF CharAt(s, i) \in {"\"", ":"} THEN SkipDelims(s, i + 1) ELSE i

\* Where the identifier starts if /thread_id[":]+([0-9a-f-]{36})/ matches at p,
\* 0 if it does not match there.
MatchAt(s, p) ==
  IF p + 8 <= Len(s) /\ SubSeq(s, p, p + 8) = "thread_id"
  THEN LET q == SkipDelims(s, p + 9) IN
       IF q > p + 9 /\ q + UuidLen - 1 <= Len(s)
          /\ \A j \in q..(q + UuidLen - 1) : CharAt(s, j) \in HexDash
       THEN q ELSE 0
  ELSE 0

\* rawOutput.match(...): match[1] of the leftmost match, Null without a match.
FallbackMatch(s) ==
  LET hits == {p \in 1..Len(s) : MatchAt(s, p) # 0} IN
  IF hits = {} THEN Null
  ELSE LET p == CHOOSE h \in hits : \A g \in hits : h <= g
           q == MatchAt(s, p)
       IN  SubSeq(s, q, q + UuidLen - 1)

\* finalMessage || rawOutput
DisplayText(p) == IF p.finalMessage # "" THEN p.finalMessage ELSE p.rawOutput

\* Mutant of ExitFails: the exit status is not looked at.
ExitFailsNever(code) == FALSE

\* code !== 0
ExitFails(code) == code # 0

\* Mutant of OnClose: the session identifier is looked for before the exit
\* status.
OnCloseIdFirst(p, code) ==
  LET sid == IF ~Truthy(p.sessionId) /\ FallbackMatch(p.rawOutput) # Null
             THEN FallbackMatch(p.rawOutput)
             ELSE p.sessionId
      q == [p EXCEPT !.sessionId = sid]
  IN  IF ~Truthy(sid)
      THEN [proc |-> q,
            settle |-> "reject",
            message |-> "Could not extract session ID from " \o p.label
                         \o " output"]
      ELSE IF ExitFails(code)
      THEN [proc |-> p,
            settle |-> "reject",
            message |-> p.label \o " exited with code " \o ToString(code)]
      ELSE [proc |-> q, settle |-> "resolve", message |-> ""]

\* Mutant of OnClose: the fallback scan is applied to every run that exited
\* with status 0, a captured identifier or not.
OnCloseScanAlways(p, code) ==
  IF ExitFails(code)
  THEN [proc |-> p,
        settle |-> "reject",
        message |-> p.label \o " exited with code " \o ToString(code)]
  ELSE LET sid == IF FallbackMatch(p.rawOutput) # Null
                  THEN FallbackMatch(p.rawOutput)
                  ELSE p.sessionId
           q == [p EXCEPT !.sessionId = sid]
       IN  IF ~Truthy(sid)
           THEN [proc |-> q,
                 settle |-> "reject",
                 message |-> "Could not extract session ID from " \o p.label
                              \o " output"]
           ELSE [proc |-> q, settle |-> "resolve", message |-> ""]

\* What the 'close' handler does with exit status code: the run's record with
\* sessionId as the fallback leaves it, and the settlement it asks for.
OnClose(p, code) ==
  IF ExitFails(code)
  THEN [proc |-> p,
        settle |-> "reject",
        message |-> p.label \o " exited with code " \o ToString(code)]
  ELSE LET sid == IF ~Truthy(p.sessionId) /\ FallbackMatch(p.rawOutput) # Null
                  THEN FallbackMatch(p.rawOutput)
                  ELSE p.sessionId
           q == [p EXCEPT !.sessionId = sid]
       IN  IF ~Truthy(sid)
           THEN [proc |-> q,
                 settle |-> "reject",
                 message |-> "Could not extract session ID from " \o p.label
                              \o " output"]
           ELSE [proc |-> q, settle |-> "resolve", message |-> ""]

\* ------------------------------------------------------------ inputs
NoArgs == [defined |-> FALSE, v |-> <<>>]
Args(v) == [defined |-> TRUE, v |-> v]
NoParams == [defined |-> FALSE, name |-> Undefined, arguments |-> NoArgs]
Params(name, args) == [defined |-> TRUE, name |-> name, arguments |-> args]
\* A parsed inbound message; its id is set when the line arrives.
Frame(method, params) ==
  [parses |-> TRUE, id |-> 0, method |-> method, params |-> params]
\* An inbound line JSON.parse throws on.
Malformed == [parses |-> FALSE, id |-> 0, method |-> Undefined, params |-> NoParams]

\* Every arguments object that supplies some of the keys of vals, each with
\* one of the values vals gives for it.
RecordsOver(vals) ==
  UNION { { f \in [D -> UNION {vals[k] : k \in D}] : \A k \in D : f[k] \in vals[k] }
          : D \in SUBSET DOMAIN vals }

CwdValues == {"", "/repo"}
StartArgs == RecordsOver([prompt |-> {"", "hello"}, cwd |-> CwdValues])
ResumeArgs == RecordsOver([sessionId |-> {"", U1}, prompt |-> {"", "more"}])
ReviewArgs ==
  RecordsOver([mode |-> {"", "uncommitted", "bogus"}, cwd |-> CwdValues])
    \cup { a \in RecordsOver([mode |-> {"base"}, base |-> {"", "main"},
                               cwd |-> CwdValues]) : "mode" \in DOMAIN a }
    \cup { a \in RecordsOver([mode |-> {"commit"}, commit |-> {"", "e119e00"},
                               cwd |-> CwdValues]) : "mode" \in DOMAIN a }
    \cup { a \in RecordsOver([mode |-> {"custom"}, prompt |-> {"", "  ", " focus "},
                               cwd |-> CwdValues]) : "mode" \in DOMAIN a }

ToolCalls ==
  { Frame("tools/call", Params("codex", Args(a))) : a \in StartArgs }
    \cup { Frame("tools/call", Params("codex-reply", Args(a))) : a \in ResumeArgs }
    \cup { Frame("tools/call", Params("codex-review", Args(a))) : a \in ReviewArgs }
    \cup { Frame("tools/call", Params(n, NoArgs))
           : n \in ToolNames \cup {"codex-fix"} }
    \cup { Frame("tools/call", NoParams) }

InboundFrames ==
  { Frame(m, NoParams) : m \in {"initialize", "initialized", "tools/list", "ping"} }
    \cup ToolCalls \cup {Malformed}

\* One frame of every kind the dispatcher and the builders tell apart.
CoreFrames ==
  { Frame(m, NoParams) : m \in {"initialize", "initialized", "tools/list", "ping"} }
    \cup { Malformed,
           Frame("tools/call", NoParams),
           Frame("tools/call", Params("codex-fix", NoArgs)),
           Frame("tools/call", Params("codex", NoArgs)),
           Frame("tools/call", Params("codex", Args([prompt |-> "hello"]))),
           Frame("tools/call", Params("codex", Args([prompt |-> ""]))),
           Frame("tools/call",
                 Params("codex-reply", Args([sessionId |-> U1, prompt |-> "more"]))),
           Frame("tools/call",
                 Params("codex-review", Args([mode |-> "uncommitted"]))),
           Frame("tools/call", Params("codex-review", Args([mode |-> "base"]))) }

ThreadStarted(u) == "{\"type\":\"thread.started\",\"thread_id\":\"" \o u \o "\"}"
AgentMessage(t) ==
  "{\"type\":\"item.completed\",\"item\":{\"type\":\"agent_message\",\"text\":\""
    \o t \o "\"}}"

\* The lines a subprocess may write to its standard output.
StdoutLines ==
  { ThreadStarted(U1), ThreadStarted(U2), AgentMessage("done"),
    "", "resuming thread_id:" \o U2 }

\* A thread.started event whose identifier is no UUID.
ShortId == "thread-1"

\* The lines a subprocess may write under SpecRun: events with two UUIDs, with
\* a short and with an empty identifier, an event padded with white space,
\* two agent messages, an event of another type, a blank line, plain text,
\* and two texts the fallback pattern matches.
RunLines ==
  { ThreadStarted(U1), ThreadStarted(U2), ThreadStarted(ShortId),
    ThreadStarted(""), "  " \o ThreadStarted(U1) \o " ",
    AgentMessage("draft"), AgentMessage("done"),
    "{\"type\":\"turn.started\"}", "", "not json",
    "resuming thread_id:" \o U2,
    "warn \"thread_id\":\"" \o U1 \o "\" seen" }

\* The tool calls SpecRun reads: one start and one resume.
RunFrames ==
  { Frame("tools/call", Params("codex", Args([prompt |-> "hello"]))),
    Frame("tools/call",
          Params("codex-reply", Args([sessionId |-> U1, prompt |-> "more"]))) }

\* ------------------------------------------------------------ subprocess runs
\* The record of a request that started no subprocess.
NoProc ==
  [spawned |-> FALSE, tool |-> "", prompt |-> Undefined, spawnOk |-> FALSE,
   cliArgs |-> <<>>, cwd |-> "", label |-> "",
   rawOutput |-> "", sessionId |-> Null, finalMessage |-> "", lines |-> <<>>,
   rlClosed |-> FALSE, errorFired |-> FALSE, closed |-> FALSE, exitCode |-> 0,
   settled |-> "none"]

\* runCodexJsonl up to the return of its promise: the subprocess is spawned
\* and the closure variables are initialised.
runCodexJsonl(cliArgs, cwd, label) ==
  [NoProc EXCEPT !.spawned = TRUE, !.cliArgs = cliArgs,
                 !.cwd = IF Truthy(cwd) THEN cwd ELSE ProcessCwd,
                 !.label = label, !.settled = "pending"]

\* sessions.set(k, v)
SessionsSet(m, k, v) == [x \in DOMAIN m \cup {k} |-> IF x = k THEN v ELSE m[x]]

Init ==
  /\ reqs = <<>>
  /\ procs = <<>>
  /\ out = <<>>
  /\ sessions = <<>>
  /\ now = 0

RECURSIVE LinesDelivered(_)
LinesDelivered(ps) ==
  IF ps = <<>> THEN 0 ELSE Len(Head(ps).lines) + LinesDelivered(Tail(ps))

\* Mutant of ReaderBlocked: the next line is held back while a tool call is
\* outstanding.
ReaderBlockedWhilePending ==
  \E i \in 1..Len(procs) : procs[i].settled = "pending"

\* Whether the reader holds back the next inbound line.  readline emits 'line'
\* for every line as it arrives and does not wait for the promise its async
\* listener returns.
ReaderBlocked == FALSE

\* rl.on("line"): one inbound line is read and handled up to the first
\* suspension; a tool call that passes its builder spawns its subprocess
\* (ok: whether the command could be started).
Receive(f) ==
  /\ Len(reqs) < MaxRequests
  /\ ~ReaderBlocked
  /\ LET message == [f EXCEPT !.id = Len(reqs) + 1]
         h == IF message.parses /\ message.method = "tools/call"
              THEN handleToolCall(message)
              ELSE [kind |-> "none"]
     IN  /\ reqs' = Append(reqs, message)
         /\ out' = out \o OnInboundLine(message)
         /\ IF h.kind = "run"
            THEN \E ok \in BOOLEAN :
                   procs' = Append(procs,
                     [runCodexJsonl(h.plan.cliArgs, h.plan.cwd, h.plan.label)
                        EXCEPT !.tool = message.params.name,
                               !.prompt = Get(message.params.arguments.v, "prompt"),
                               !.spawnOk = ok])
            ELSE procs' = Append(procs, NoProc)
  /\ UNCHANGED <<sessions, now>>

\* stdoutRl.on("line"): the line handler of run i is called with line.
DeliverLine(i, line) ==
  /\ procs[i].spawned /\ procs[i].spawnOk
  /\ ~procs[i].closed /\ ~procs[i].rlClosed
  /\ procs' = [procs EXCEPT ![i] = OnStdoutLine(@, line)]
  /\ UNCHANGED <<reqs, out, sessions, now>>

\* stdoutRl.on("line")
StdoutLine(i, line) ==
  /\ LinesDelivered(procs) < MaxLines
  /\ DeliverLine(i, line)

\* Mutant of StoresSession: every tool's run stores its session.
StoresSessionAlways(p) == TRUE

\* Mutant of StoresSession: the then-callback is left out.
StoresSessionNever(p) == FALSE

\* Whether the promise chain of run p holds runCodexStart's then-callback.
StoresSession(p) == p.tool = "codex"

\* Mutant of AlreadySettled: a second resolve or reject is acted on.
AlreadySettledNever(p) == FALSE

\* Whether the promise of run p has been resolved or rejected before.
AlreadySettled(p) == p.settled # "pending"

\* The promise of run i is asked to settle (kind "resolve" or "reject") with
\* the run's record now q; t is what Date.now() returns if it is read.  A
\* promise settles once: a later resolve or reject changes nothing.  The
\* continuations run at once: runCodexStart's then-callback stores the
\* session, handleToolCall sends the result or its catch block the error.
Settle(i, q, kind, message, t) ==
  IF AlreadySettled(procs[i])
  THEN /\ procs' = [procs EXCEPT ![i] = q]
       /\ UNCHANGED <<out, sessions, now>>
  ELSE IF kind = "reject"
  THEN /\ procs' = [procs EXCEPT ![i] = [q EXCEPT !.settled = "rejected"]]
       /\ out' = Append(out, sendError(reqs[i].id, InternalError, message))
       /\ UNCHANGED <<sessions, now>>
  ELSE /\ procs' = [procs EXCEPT ![i] = [q EXCEPT !.settled = "resolved"]]
       /\ out' = Append(out,
            sendResponse(reqs[i].id,
              ToolResult([sessionId |-> q.sessionId, output |-> DisplayText(q)])))
       /\ IF StoresSession(q)
          THEN /\ sessions' = SessionsSet(sessions, q.sessionId,
                                [created |-> t, initialPrompt |-> q.prompt])
               /\ now' = t
          ELSE /\ t = now
               /\ UNCHANGED <<sessions, now>>

\* proc.on("error"): the command could not be started.
ProcError(i) ==
  /\ procs[i].spawned /\ ~procs[i].spawnOk /\ ~procs[i].errorFired
  /\ Settle(i, [procs[i] EXCEPT !.errorFired = TRUE, !.rlClosed = TRUE],
            "reject", "spawn codex ENOENT", now)
  /\ UNCHANGED reqs

\* proc.on("close") with exit status code.
ProcClose(i, code, t) ==
  /\ procs[i].spawned /\ ~procs[i].closed
  /\ IF procs[i].spawnOk THEN code \in {0, 1} ELSE code = SpawnFailCode
  /\ LET c == OnClose(procs[i], code) IN
     Settle(i, [c.proc EXCEPT !.closed = TRUE, !.rlClosed = TRUE,
                              !.exitCode = code],
            c.settle, c.message, t)
  /\ UNCHANGED reqs

Next ==
  \/ \E f \in CoreFrames : Receive(f)
  \/ \E i \in 1..Len(procs), line \in StdoutLines : StdoutLine(i, line)
  \/ \E i \in 1..Len(procs) : ProcError(i)
  \/ \E i \in 1..Len(procs), code \in {0, 1, SpawnFailCode}, t \in now..MaxClock :
       ProcClose(i, code, t)

Spec == Init /\ [][Next]_vars

\* One request at a time, drawn from every shape of inbound frame.
NextSingle ==
  \/ \E f \in InboundFrames : Len(reqs) < MaxSingle /\ Receive(f)
  \/ \E i \in 1..Len(procs), line \in StdoutLines : StdoutLine(i, line)
  \/ \E i \in 1..Len(procs) : ProcError(i)
  \/ \E i \in 1..Len(procs), code \in {0, 1, SpawnFailCode}, t \in now..MaxClock :
       ProcClose(i, code, t)

SpecSingle == Init /\ [][NextSingle]_vars

\* One tool call whose subprocess writes up to MaxRunLines lines of RunLines.
NextRun ==
  \/ \E f \in RunFrames : Len(reqs) < MaxSingle /\ Receive(f)
  \/ \E i \in 1..Len(procs), line \in RunLines :
       LinesDelivered(procs) < MaxRunLines /\ DeliverLine(i, line)
  \/ \E i \in 1..Len(procs) : ProcError(i)
  \/ \E i \in 1..Len(procs), code \in {0, 1, SpawnFailCode}, t \in now..MaxClock :
       ProcClose(i, code, t)

SpecRun == Init /\ [][NextRun]_vars

\* ------------------------------------------------------------ claims
Requests == 1..Len(reqs)

\* The message is a tools/call naming tool.
IsToolCall(m, tool) ==
  m.parses /\ m.method = "tools/call" /\ m.params.defined /\ m.params.name = tool

\* The arguments object of a tools/call (empty when none was sent).
ArgsOf(m) == m.params.arguments.v

\* The positions of the outbound frames that carry id i.
FramesFor(i) == {k \in 1..Len(out) : out[k].id = i}

\* An outbound frame that is the result of a tool call.
IsToolResult(fr) == IsResult(fr) /\ "content" \in DOMAIN fr.result

\* The text of the annotation for session identifier u.
Annotation(u) == "\n[SESSION_ID: " \o u \o "]"

RECURSIVE Replay(_, _)
\* The closure variables of a run after the lines ls, from the record p.
Replay(p, ls) ==
  IF ls = <<>> THEN p ELSE Replay(OnStdoutLine(p, Head(ls)), Tail(ls))

\* What a run whose subprocess wrote the lines ls and exited with status 0
\* yields, computed from those lines alone.
OwnOutcome(ls) ==
  LET q == OnClose(Replay(runCodexJsonl(<<>>, Undefined, ""), ls), 0).proc IN
  [sessionId |-> q.sessionId, output |-> DisplayText(q)]

\* The messages with which the run p can have failed.
OwnErrors(p) ==
  (IF p.errorFired THEN {"spawn codex ENOENT"} ELSE {})
    \cup (IF p.closed /\ p.exitCode # 0
          THEN {p.label \o " exited with code " \o ToString(p.exitCode)} ELSE {})
    \cup (IF p.closed /\ p.exitCode = 0 /\ ~Truthy(OwnOutcome(p.lines).sessionId)
          THEN {"Could not extract session ID from " \o p.label \o " output"}
          ELSE {})

\* A request frame: a parsed message other than the initialized notification.
IsRequest(m) == m.parses /\ m.method # "initialized"

\* The request has no subprocess still to close.
Finished(i) == ~procs[i].spawned \/ procs[i].closed

\* C1 (as claimed): every request frame -- initialize, tools/list, tools/call
\* with any shape of params, an unknown method -- gets exactly one response
\* frame carrying its id: never more than one, and one as soon as the request
\* has no subprocess left to close.
C1_ExactlyOneResponse ==
  \A i \in Requests :
    IsRequest(reqs[i]) =>
      /\ Cardinality(FramesFor(i)) <= 1
      /\ Finished(i) => Cardinality(FramesFor(i)) = 1

\* C2: with tool calls outstanding together, a tool result carries the id of
\* the request whose own subprocess it reports: its session identifier and
\* display text are those computed from the lines of that subprocess alone,
\* and an error frame for a request with a subprocess reports a failure of
\* that subprocess.  No request gets two frames.
C2_ResponsesCorrelated ==
  \A k \in 1..Len(out) :
    LET fr == out[k]
        i == fr.id
    IN  /\ IsToolResult(fr) =>
             /\ i \in Requests
             /\ procs[i].spawned /\ procs[i].settled = "resolved"
             /\ fr.result = ToolResult(OwnOutcome(procs[i].lines))
             /\ FramesFor(i) = {k}
        /\ (IsError(fr) /\ i \in Requests /\ procs[i].spawned) =>
             /\ procs[i].settled = "rejected"
             /\ fr.error.message \in OwnErrors(procs[i])
             /\ FramesFor(i) = {k}

\* C2's case: two tool calls were outstanding together and the second was
\* answered first, each with its own session identifier.
C2_Witness ==
  /\ Len(out) = 2
  /\ out[1].id = 2 /\ out[2].id = 1
  /\ IsToolResult(out[1]) /\ IsToolResult(out[2])
  /\ out[1].result.content[2].text = Annotation(U1)
  /\ out[2].result.content[2].text = Annotation(U2)

\* C3: a run resolves only if its subprocess closed with status 0 and its
\* output yields a session identifier (captured or by the fallback); a run
\* that ended otherwise is rejected, and a tool result is written only for a
\* run that resolved.
C3_SuccessNeedsZeroExitAndId ==
  /\ \A i \in Requests :
       LET p == procs[i] IN
       p.spawned =>
         /\ p.settled = "resolved" =>
              /\ p.closed /\ p.exitCode = 0
              /\ Truthy(OwnOutcome(p.lines).sessionId)
         /\ (p.closed \/ p.errorFired) => p.settled \in {"resolved", "rejected"}
         /\ (p.closed /\ (p.exitCode # 0 \/ ~Truthy(OwnOutcome(p.lines).sessionId)))
              => p.settled = "rejected"
  /\ \A k \in 1..Len(out) :
       IsToolResult(out[k]) =>
         /\ out[k].id \in Requests
         /\ procs[out[k].id].closed /\ procs[out[k].id].exitCode = 0
         /\ Truthy(OwnOutcome(procs[out[k].id].lines).sessionId)

\* C3's case: a subprocess reported a session identifier and exited non-zero,
\* and its run was rejected.
C3_Witness ==
  \E i \in Requests :
    /\ procs[i].spawned /\ procs[i].closed /\ procs[i].exitCode = 1
    /\ OwnOutcome(procs[i].lines).sessionId = U1
    /\ procs[i].settled = "rejected"
    /\ \E k \in FramesFor(i) : IsError(out[k])

\* C4 (as claimed): a codex call whose prompt is absent or empty, and a
\* codex-reply call whose sessionId or prompt is absent or empty, is answered
\* with an error frame and spawns no subprocess.
C4_MissingFieldSpawnsNothing ==
  \A i \in Requests :
    LET a == ArgsOf(reqs[i]) IN
    (\/ IsToolCall(reqs[i], "codex") /\ ~Truthy(Get(a, "prompt"))
     \/ IsToolCall(reqs[i], "codex-reply")
          /\ (~Truthy(Get(a, "sessionId")) \/ ~Truthy(Get(a, "prompt"))))
      => /\ ~procs[i].spawned
         /\ \E k \in 1..Len(out) : FramesFor(i) = {k} /\ IsError(out[k])

ReviewModes == {"uncommitted", "base", "commit", "custom"}

\* The arguments of a review call lack what their mode requires.
ReviewInvalid(a) ==
  LET mode == Get(a, "mode") IN
  \/ ~Truthy(mode)
  \/ mode = "base" /\ ~Truthy(Get(a, "base"))
  \/ mode = "commit" /\ ~Truthy(Get(a, "commit"))
  \/ mode = "custom" /\ (~Truthy(Get(a, "prompt")) \/ Trim(Get(a, "prompt")) = "")
  \/ mode \notin ReviewModes

\* What the error message of an invalid review call has to name.
ReviewNames(a) ==
  LET mode == Get(a, "mode") IN
  IF ~Truthy(mode) THEN "requires mode"
  ELSE IF mode = "base" THEN "requires base"
  ELSE IF mode = "commit" THEN "requires commit"
  ELSE IF mode = "custom" THEN "requires prompt"
  ELSE mode

\* The text sub occurs in s.
Contains(s, sub) ==
  \E j \in 1..(Len(s) - Len(sub) + 1) : SubSeq(s, j, j + Len(sub) - 1) = sub

\* C5: a codex-review call whose mode is absent, whose mode=base lacks a
\* non-empty base, whose mode=commit lacks a non-empty commit, whose
\* mode=custom has a prompt absent or empty after trimming, or whose mode is
\* outside the four modes, gets one error frame of code -32603 whose message
\* names the missing requirement (or the offending mode), and no subprocess.
C5_InvalidReviewRejected ==
  \A i \in Requests :
    (IsToolCall(reqs[i], "codex-review") /\ ReviewInvalid(ArgsOf(reqs[i]))) =>
      /\ ~procs[i].spawned
      /\ \E k \in 1..Len(out) :
           /\ FramesFor(i) = {k}
           /\ IsError(out[k])
           /\ out[k].error.code = -32603
           /\ Contains(out[k].error.message, ReviewNames(ArgsOf(reqs[i])))

\* C5's case: a custom review whose prompt is white space only was refused.
C5_Witness ==
  \E i \in Requests :
    /\ IsToolCall(reqs[i], "codex-review")
    /\ Get(ArgsOf(reqs[i]), "mode") = "custom"
    /\ Get(ArgsOf(reqs[i]), "prompt") = "  "
    /\ \E k \in FramesFor(i) : IsError(out[k])

\* The identifiers that start operations which completed returned.
StartedIds ==
  {procs[i].sessionId : i \in {j \in Requests : procs[j].tool = "codex"
                                               /\ procs[j].settled = "resolved"}}

\* C6: the keys of the session registry are exactly the identifiers returned
\* by the start operations that completed successfully; failed starts and
\* all resume and review calls leave it alone.
C6_RegistryIsSuccessfulStarts == DOMAIN sessions = StartedIds

\* C6's case: a start and a resume both succeeded, and only the start's
\* identifier is registered.
C6_Witness ==
  \E i, j \in Requests :
    /\ procs[i].tool = "codex" /\ procs[i].settled = "resolved"
    /\ procs[j].tool = "codex-reply" /\ procs[j].settled = "resolved"
    /\ procs[i].sessionId \in DOMAIN sessions
    /\ procs[j].sessionId \notin DOMAIN sessions

\* C7 (as claimed): a record in the registry is never removed and its
\* creation time and initial prompt never change, whatever tool calls follow.
C7_RecordsNeverChange ==
  [][\A u \in DOMAIN sessions :
       u \in DOMAIN sessions' /\ sessions'[u] = sessions[u]]_vars

\* The identifier a stdout line carries as a thread.started event, Null if
\* the line is no such event.
StartedId(line) ==
  LET parsed == JsonParse(Trim(line)) IN
  IF parsed.ok /\ FieldIs(parsed.val, "type", "thread.started")
     /\ Field(parsed.val, "thread_id").t = "str"
     /\ Field(parsed.val, "thread_id").v # ""
  THEN Field(parsed.val, "thread_id").v
  ELSE Null

\* The identifiers of the thread.started events among the lines ls.
StartedIdsIn(ls) == {StartedId(ls[j]) : j \in 1..Len(ls)} \ {Null}

\* A codex call with a non-empty prompt whose subprocess exited with status 0.
StartExitedZero(i) ==
  /\ IsToolCall(reqs[i], "codex") /\ Truthy(Get(ArgsOf(reqs[i]), "prompt"))
  /\ procs[i].spawned /\ procs[i].closed /\ procs[i].exitCode = 0

\* The request got one frame, a success annotated with u, and u is registered.
AnsweredWith(i, u) ==
  /\ \E k \in 1..Len(out) :
       /\ FramesFor(i) = {k}
       /\ IsToolResult(out[k])
       /\ out[k].result.content[2].text = Annotation(u)
  /\ u \in DOMAIN sessions

\* C8 (as claimed): if the subprocess of such a call emitted a thread.started
\* event carrying u and exited with status 0, the response is a success
\* annotated with u and the registry holds u.
C8_AnyStartedIdAnswered ==
  \A i \in Requests :
    StartExitedZero(i) =>
      \A u \in StartedIdsIn(procs[i].lines) : AnsweredWith(i, u)

\* C8 (amended): if every thread.started event the subprocess of such a call
\* emitted carries the same identifier u (there is at least one) and it exited
\* with status 0, the response is a success annotated with u and the registry
\* holds u, in every later state.
C8_OnlyStartedIdAnswered ==
  \A i \in Requests :
    StartExitedZero(i) =>
      \A u \in StartedIdsIn(procs[i].lines) :
        StartedIdsIn(procs[i].lines) = {u} => AnsweredWith(i, u)

\* C8's case: a start's subprocess emitted thread.started for U1 and an agent
\* message, and exited with status 0.
C8_Witness ==
  \E i \in Requests :
    /\ StartExitedZero(i)
    /\ procs[i].lines = <<ThreadStarted(U1), AgentMessage("done")>>

\* The vector v holds a and, right after it, b.
HasPair(v, a, b) == \E j \in 1..(Len(v) - 1) : v[j] = a /\ v[j + 1] = b

\* C9: every argument vector a codex call spawns the command with holds the
\* pair --sandbox read-only and the flag --json, and holds -C <dir> if and
\* only if a working directory was supplied (a non-empty cwd: the code takes
\* an empty cwd for none, in the vector and in the spawn options alike).
C9_StartVectorSandboxed ==
  \A i \in Requests :
    (procs[i].spawned /\ procs[i].tool = "codex") =>
      LET v == procs[i].cliArgs
          cwd == Get(ArgsOf(reqs[i]), "cwd")
      IN  /\ HasPair(v, "--sandbox", "read-only")
          /\ \E j \in 1..Len(v) : v[j] = "--json"
          /\ (\E j \in 1..Len(v) : v[j] = "-C") <=> Truthy(cwd)
          /\ Truthy(cwd) => HasPair(v, "-C", cwd)

\* C9's case: a codex call with a working directory spawned the command.
C9_Witness ==
  \E i \in Requests :
    /\ procs[i].spawned /\ procs[i].tool = "codex"
    /\ Get(ArgsOf(reqs[i]), "cwd") = "/repo"

\* The review option of mode m sits in v after position k.
ReviewOptionAfter(v, k, a) ==
  LET mode == Get(a, "mode") IN
  \E j \in (k + 1)..Len(v) :
    CASE mode = "uncommitted" -> v[j] = "--uncommitted"
      [] mode = "base" -> j < Len(v) /\ v[j] = "--base" /\ v[j + 1] = Get(a, "base")
      [] mode = "commit" ->
           j < Len(v) /\ v[j] = "--commit" /\ v[j + 1] = Get(a, "commit")
      [] mode = "custom" -> v[j] = Trim(Get(a, "prompt"))
      [] OTHER -> FALSE

\* C10: in every argument vector a codex-review call hands to the runner,
\* --json comes before the review token, the option of the mode comes after
\* it, and -C <dir> is there if and only if a (non-empty) cwd was supplied.
C10_ReviewVectorOrdered ==
  \A i \in Requests :
    (procs[i].spawned /\ procs[i].tool = "codex-review") =>
      LET v == procs[i].cliArgs
          a == ArgsOf(reqs[i])
          cwd == Get(a, "cwd")
      IN  /\ \E j, k \in 1..Len(v) :
               /\ j < k /\ v[j] = "--json" /\ v[k] = "review"
               /\ ReviewOptionAfter(v, k, a)
          /\ (\E j \in 1..Len(v) : v[j] = "-C") <=> Truthy(cwd)
          /\ Truthy(cwd) => HasPair(v, "-C", cwd)

\* C10's case: a custom review with a padded prompt and a working directory
\* reached the runner.
C10_Witness ==
  \E i \in Requests :
    /\ procs[i].spawned /\ procs[i].tool = "codex-review"
    /\ Get(ArgsOf(reqs[i]), "mode") = "custom"
    /\ Get(ArgsOf(reqs[i]), "prompt") = " focus "
    /\ Get(ArgsOf(reqs[i]), "cwd") = "/repo"

\* The label under which each tool runs its subprocess.
LabelOf(tool) ==
  CASE tool = "codex" -> "Codex"
    [] tool = "codex-reply" -> "Codex resume"
    [] tool = "codex-review" -> "Codex review"

\* The message of the one frame written for request i, Null if that frame is
\* no error frame or there is not exactly one frame.
ErrorMessageFor(i) ==
  IF Cardinality(FramesFor(i)) = 1
  THEN LET fr == out[CHOOSE k \in FramesFor(i) : TRUE] IN
       IF IsError(fr) THEN fr.error.message ELSE Null
  ELSE Null

\* C11: of a subprocess that was started and has closed, a non-zero exit
\* status fails the run with the error naming the run's label and that status,
\* whether or not a session identifier was captured; exit status 0 without an
\* extractable session identifier fails it with the error naming the label's
\* missing session identifier.  Neither error stands for the other.
C11_ExitErrorVsMissingId ==
  \A i \in Requests :
    LET p == procs[i] IN
    (p.spawned /\ p.spawnOk /\ p.closed) =>
      /\ p.exitCode # 0 =>
           /\ p.settled = "rejected"
           /\ ErrorMessageFor(i) =
                LabelOf(p.tool) \o " exited with code " \o ToString(p.exitCode)
      /\ (p.exitCode = 0 /\ ~Truthy(OwnOutcome(p.lines).sessionId)) =>
           /\ p.settled = "rejected"
           /\ ErrorMessageFor(i) =
                "Could not extract session ID from " \o LabelOf(p.tool) \o " output"
      /\ ErrorMessageFor(i) =
           "Could not extract session ID from " \o LabelOf(p.tool) \o " output"
           => p.exitCode = 0
      /\ ErrorMessageFor(i) =
           LabelOf(p.tool) \o " exited with code " \o ToString(p.exitCode)
           => p.exitCode # 0

\* C11's case: two runs closed, one with a captured session identifier and
\* exit status 1, answered with the exit-status error, the other with exit
\* status 0 and no identifier, answered with the missing-identifier error.
C11_Witness ==
  \E i, j \in Requests :
    /\ procs[i].spawned /\ procs[i].closed /\ procs[i].exitCode = 1
    /\ procs[i].sessionId = U1
    /\ ErrorMessageFor(i) = LabelOf(procs[i].tool) \o " exited with code 1"
    /\ procs[j].spawned /\ procs[j].closed /\ procs[j].exitCode = 0
    /\ procs[j].spawnOk /\ ~Truthy(procs[j].sessionId)
    /\ ErrorMessageFor(j) =
         "Could not extract session ID from " \o LabelOf(procs[j].tool) \o " output"

\* The methods the dispatcher recognizes.
KnownMethods == {"initialize", "initialized", "tools/list", "tools/call"}

\* The request names a method the dispatcher does not recognize.
UnknownMethod(m) == m.parses /\ m.method \notin KnownMethods

\* The request is a tools/call that names no tool of the server.
UnknownTool(m) ==
  /\ m.parses /\ m.method = "tools/call" /\ m.params.defined
  /\ m.params.name \notin {"codex", "codex-reply", "codex-review"}

\* The request is a tools/call that names a tool of the server.
KnownToolCall(m) ==
  /\ m.parses /\ m.method = "tools/call" /\ m.params.defined
  /\ m.params.name \in {"codex", "codex-reply", "codex-review"}

\* The request's tool pipeline failed: its arguments were refused before any
\* subprocess, or its run was rejected.
PipelineFailed(i) ==
  /\ KnownToolCall(reqs[i])
  /\ \/ ~procs[i].spawned
     \/ procs[i].settled = "rejected"

\* C12: an error frame's code follows from its cause.  A request with an
\* unrecognized method gets -32601; a tools/call naming a tool outside codex,
\* codex-reply, codex-review gets -32602 and spawns no subprocess; a tools/call
\* of one of the three tools whose pipeline failed (arguments refused, spawn
\* error, non-zero exit, missing identifier) gets -32603 with the failure's
\* message; and no error frame is written for any other reason.
C12_ErrorCodeByCause ==
  /\ \A i \in Requests :
       /\ UnknownMethod(reqs[i]) =>
            \E k \in FramesFor(i) :
              /\ IsError(out[k]) /\ out[k].error.code = -32601
       /\ UnknownTool(reqs[i]) =>
            /\ ~procs[i].spawned
            /\ \E k \in FramesFor(i) :
                 /\ IsError(out[k]) /\ out[k].error.code = -32602
       /\ PipelineFailed(i) =>
            \E k \in FramesFor(i) :
              /\ IsError(out[k]) /\ out[k].error.code = -32603
              /\ out[k].error.message # ""
              /\ procs[i].spawned => out[k].error.message \in OwnErrors(procs[i])
              /\ (~procs[i].spawned /\ reqs[i].params.arguments.defined) =>
                   Contains(out[k].error.message, ReviewNames(ArgsOf(reqs[i])))
  /\ \A k \in 1..Len(out) :
       IsError(out[k]) =>
         /\ out[k].id \in Requests
         /\ out[k].error.code =
              IF UnknownMethod(reqs[out[k].id]) THEN -32601
              ELSE IF UnknownTool(reqs[out[k].id]) THEN -32602
              ELSE -32603
         /\ \/ UnknownMethod(reqs[out[k].id])
            \/ UnknownTool(reqs[out[k].id])
            \/ PipelineFailed(out[k].id)

\* C12's case: a tools/call of a tool the server has failed at its subprocess,
\* which exited non-zero, and was answered with -32603 and that failure's
\* message.
C12_Witness ==
  \E i \in Requests :
    /\ KnownToolCall(reqs[i]) /\ procs[i].spawned
    /\ procs[i].closed /\ procs[i].exitCode = 1
    /\ \E k \in FramesFor(i) :
         /\ IsError(out[k]) /\ out[k].error.code = -32603
         /\ out[k].error.message = LabelOf(procs[i].tool) \o " exited with code 1"

\* The identifiers of the thread.started events among the lines ls, in the
\* order of the lines.
StartedSeq(ls) ==
  SelectSeq([j \in 1..Len(ls) |-> StartedId(ls[j])], LAMBDA u : u # Null)

\* The session identifier in the tool result written for request i, Null if
\* no tool result was written for it.
AnsweredId(i) ==
  IF \E k \in FramesFor(i) : IsToolResult(out[k])
  THEN LET fr == out[CHOOSE k \in FramesFor(i) : IsToolResult(out[k])]
           t == fr.result.content[2].text
       IN  SubSeq(t, Len("\n[SESSION_ID: ") + 1, Len(t) - 1)
  ELSE Null

\* C13 (as claimed): in a run whose output has thread.started events with a
\* non-empty thread_id, the captured session identifier is the one of the
\* first such event at every moment after it, and it is the identifier of the
\* run's outcome.
C13_FirstStartedWins ==
  \A i \in Requests :
    LET p == procs[i] IN
    (p.spawned /\ StartedSeq(p.lines) # <<>>) =>
      /\ p.sessionId = Head(StartedSeq(p.lines))
      /\ p.settled = "resolved" => AnsweredId(i) = Head(StartedSeq(p.lines))

\* C13 (amended): each thread.started event with a non-empty thread_id
\* replaces the captured session identifier, so the captured identifier is at
\* every moment the one of the last such event delivered, and it is the
\* identifier of the run's outcome.
C13_LastStartedWins ==
  \A i \in Requests :
    LET p == procs[i]
        s == StartedSeq(p.lines)
    IN  (p.spawned /\ s # <<>>) =>
          /\ p.sessionId = s[Len(s)]
          /\ p.settled = "resolved" => AnsweredId(i) = s[Len(s)]

\* C13's case: a subprocess reported one identifier, then another, exited
\* with status 0 and its call was answered with the second.
C13_Witness ==
  \E i \in Requests :
    /\ procs[i].settled = "resolved"
    /\ StartedSeq(procs[i].lines) = <<U1, U2>>
    /\ AnsweredId(i) = U2

\* The text a stdout line carries as an item.completed event of an agent
\* message with a non-empty text, Null if the line is no such event.
AgentText(line) ==
  LET parsed == JsonParse(Trim(line)) IN
  IF parsed.ok /\ FieldIs(parsed.val, "type", "item.completed")
     /\ FieldIs(Field(parsed.val, "item"), "type", "agent_message")
     /\ Field(Field(parsed.val, "item"), "text").t = "str"
     /\ Field(Field(parsed.val, "item"), "text").v # ""
  THEN Field(Field(parsed.val, "item"), "text").v
  ELSE Null

\* The texts of the agent messages among the lines ls, in the order of the
\* lines.
AgentTexts(ls) ==
  SelectSeq([j \in 1..Len(ls) |-> AgentText(ls[j])], LAMBDA t : t # Null)

RECURSIVE JoinLines(_)
\* The lines ls, each followed by a newline, one after the other.
JoinLines(ls) ==
  IF ls = <<>> THEN "" ELSE Head(ls) \o "\n" \o JoinLines(Tail(ls))

\* The display text in the tool result written for request i.
AnsweredText(i) ==
  out[CHOOSE k \in FramesFor(i) : IsToolResult(out[k])].result.content[1].text

\* C14: the display text of a run that succeeded is the text of the last
\* item.completed event of an agent message with a non-empty text among its
\* output lines; without such an event it is all the lines, each followed by
\* a newline.
C14_DisplayTextLastMessage ==
  \A i \in Requests :
    LET p == procs[i]
        texts == AgentTexts(p.lines)
    IN  (p.spawned /\ p.settled = "resolved") =>
          /\ \E k \in FramesFor(i) : IsToolResult(out[k])
          /\ AnsweredText(i) =
               IF texts # <<>> THEN texts[Len(texts)] ELSE JoinLines(p.lines)

\* C14's case: a run that succeeded after two agent messages with different
\* texts was answered with the second.
C14_Witness ==
  \E i \in Requests :
    /\ procs[i].settled = "resolved"
    /\ AgentTexts(procs[i].lines) = <<"draft", "done">>
    /\ AnsweredText(i) = "done"

\* The line is blank or is not the text of a JSON value.
Unparsable(line) == Trim(line) = "" \/ ~JsonParse(Trim(line)).ok

\* C15: at every moment of a run the raw-output buffer is the lines received
\* so far, in order, each followed by a newline, whatever the lines are; the
\* captured session identifier and final message are those of the last
\* thread.started event and the last agent message received, whatever lines
\* came between; and the delivery of a line that does not parse changes
\* neither of the two.
C15_RawOutputKeepsEveryLine ==
  /\ [](\A i \in Requests :
          LET p == procs[i]
              ids == StartedSeq(p.lines)
              texts == AgentTexts(p.lines)
          IN  p.spawned =>
                /\ p.rawOutput = JoinLines(p.lines)
                /\ ~p.closed =>
                     p.sessionId = IF ids = <<>> THEN Null ELSE ids[Len(ids)]
                /\ p.finalMessage = IF texts = <<>> THEN "" ELSE texts[Len(texts)])
  /\ [][\A i \in Requests :
          (/\ Len(procs'[i].lines) = Len(procs[i].lines) + 1
           /\ Unparsable(procs'[i].lines[Len(procs'[i].lines)]))
          => /\ procs'[i].sessionId = procs[i].sessionId
             /\ procs'[i].finalMessage = procs[i].finalMessage
             /\ procs'[i].rawOutput =
                  procs[i].rawOutput
                    \o procs'[i].lines[Len(procs'[i].lines)] \o "\n"]_vars

\* C15's case: a run received a line of plain text, a blank line and then a
\* thread.started event: the buffer holds all three and the identifier of the
\* event was captured.
C15_Witness ==
  \E i \in Requests :
    /\ procs[i].lines = <<"not json", "", ThreadStarted(U1)>>
    /\ procs[i].rawOutput = "not json\n\n" \o ThreadStarted(U1) \o "\n"
    /\ procs[i].sessionId = U1

\* The 36 characters the fallback pattern takes from one line: after the
\* leftmost thread_id that is followed by quotes or colons and then by 36
\* characters of lowercase hex digits and hyphens; Null if the line has none.
LineToken(line) ==
  LET hits == {p \in 1..Len(line) : MatchAt(line, p) # 0} IN
  IF hits = {} THEN Null
  ELSE LET p == CHOOSE h \in hits : \A g \in hits : h <= g IN
       SubSeq(line, MatchAt(line, p), MatchAt(line, p) + 35)

\* The tokens of the lines ls that have one, in the order of the lines.
LineTokens(ls) ==
  SelectSeq([j \in 1..Len(ls) |-> LineToken(ls[j])], LAMBDA u : u # Null)

\* C16: of a run whose subprocess exited with status 0, the outcome's session
\* identifier is the structurally captured one whenever a thread.started
\* event with a non-empty thread_id was received, whatever thread_id-like text
\* the buffer holds; when none was received and the buffer holds a thread_id
\* token followed by 36 characters of hex digits and hyphens, the run succeeds
\* with the token of the first such occurrence in the buffer; and when neither
\* is there the run does not succeed.
C16_FallbackOnlyWithoutCapture ==
  \A i \in Requests :
    LET p == procs[i]
        ids == StartedSeq(p.lines)
        tokens == LineTokens(p.lines)
    IN  (p.spawned /\ p.spawnOk /\ p.closed /\ p.exitCode = 0) =>
          /\ ids # <<>> =>
               /\ p.settled = "resolved"
               /\ AnsweredId(i) = ids[Len(ids)]
          /\ (ids = <<>> /\ tokens # <<>>) =>
               /\ p.settled = "resolved"
               /\ AnsweredId(i) = Head(tokens)
          /\ (ids = <<>> /\ tokens = <<>>) => p.settled = "rejected"

\* C16's case: a line of text with thread_id and one UUID came first, a
\* thread.started event with another UUID after it, and the call was answered
\* with the identifier of the event.
C16_Witness ==
  \E i \in Requests :
    /\ procs[i].settled = "resolved"
    /\ procs[i].lines = <<"resuming thread_id:" \o U2, ThreadStarted(U1)>>
    /\ AnsweredId(i) = U1

\* u is 36 characters of lowercase hex digits and hyphens.
UuidLike(u) ==
  /\ Len(u) = 36
  /\ \A j \in 1..Len(u) :
       SubSeq(u, j, j) \in {"0", "1", "2", "3", "4", "5", "6", "7", "8", "9",
                            "a", "b", "c", "d", "e", "f", "-"}

\* C17 (as claimed): every session identifier in a tool result, and every key
\* of the session registry, is 36 characters of lowercase hex digits and
\* hyphens, whether it was captured from a thread.started event or found by
\* the fallback scan.
C17_EveryIdUuidLike ==
  /\ \A i \in Requests :
       (procs[i].spawned /\ procs[i].settled = "resolved") => UuidLike(AnsweredId(i))
  /\ \A u \in DOMAIN sessions : UuidLike(u)

\* The request is answered by the line handler itself, without a subprocess.
Synchronous(m) ==
  m.parses /\ (m.method \in {"initialize", "tools/list"} \/ UnknownMethod(m))

\* C18: an inbound frame can be read whatever tool calls are outstanding; a
\* request for a synchronous method is answered in the step that reads it, so
\* before any subprocess still running has exited; and the answers to
\* synchronous requests are written in the order the requests arrived.
C18_DispatcherNeverWaits ==
  /\ Len(reqs) < MaxRequests => \A f \in CoreFrames : ENABLED Receive(f)
  /\ \A i \in Requests :
       Synchronous(reqs[i]) => Cardinality(FramesFor(i)) = 1
  /\ \A i, j \in Requests :
       (i < j /\ Synchronous(reqs[i]) /\ Synchronous(reqs[j])) =>
         \A k \in FramesFor(i), l \in FramesFor(j) : k < l

\* C18's case: the subprocess of the first tool call is still running and the
\* tools/list request that arrived after it has its answer.
C18_Witness ==
  /\ Len(reqs) = 2
  /\ procs[1].spawned /\ procs[1].spawnOk /\ ~procs[1].closed
  /\ procs[1].settled = "pending"
  /\ reqs[2].parses /\ reqs[2].method = "tools/list"
  /\ FramesFor(1) = {}
  /\ \E k \in FramesFor(2) : IsResult(out[k])

\* An inbound line that is not the text of a JSON message was read before
\* request j.
AfterMalformed(j) == \E i \in 1..(j - 1) : ~reqs[i].parses

\* C19: the step that reads an inbound line which does not parse writes no
\* frame, spawns no subprocess and leaves the registry and every run as they
\* were; no frame is ever written for such a line; and the lines after it are
\* read and handled as ever: any frame can still be read, a synchronous
\* request is answered, a tools/call that passes its builder has its
\* subprocess and one that is refused has its error frame.
C19_MalformedLineIgnored ==
  /\ [][(Len(reqs') = Len(reqs) + 1 /\ ~reqs'[Len(reqs')].parses) =>
          /\ out' = out
          /\ sessions' = sessions
          /\ Len(procs') = Len(procs) + 1
          /\ ~procs'[Len(procs')].spawned
          /\ \A i \in 1..Len(procs) : procs'[i] = procs[i]]_vars
  /\ [](\A i \in Requests :
          /\ ~reqs[i].parses => (FramesFor(i) = {} /\ ~procs[i].spawned)
          /\ (AfterMalformed(i) /\ Synchronous(reqs[i])) =>
               Cardinality(FramesFor(i)) = 1
          /\ (AfterMalformed(i) /\ KnownToolCall(reqs[i])) =>
               \/ procs[i].spawned
               \/ \E k \in FramesFor(i) : IsError(out[k]))
  /\ []((Len(reqs) < MaxRequests /\ AfterMalformed(Len(reqs) + 1)) =>
          \A f \in CoreFrames : ENABLED Receive(f))

\* C19's case: a line that does not parse was read first; the start call
\* read after it ran its subprocess, was answered and is in the registry, and
\* its frame is the only one written.
C19_Witness ==
  /\ Len(reqs) = 2
  /\ ~reqs[1].parses
  /\ IsToolCall(reqs[2], "codex")
  /\ procs[2].settled = "resolved"
  /\ Len(out) = 1 /\ out[1].id = 2 /\ IsToolResult(out[1])
  /\ DOMAIN sessions = {U1}

\* The command of request i's run could not be started.
SpawnFailed(i) == procs[i].spawned /\ ~procs[i].spawnOk

\* C20: a request has one run record, written when its line is read, and only
\* a tools/call of one of the three tools has a subprocess; what was spawned
\* for a request never changes afterwards and a run that settled stays as it
\* settled, with the frames of its request as they were.  A run whose command
\* could not be started is rejected by whichever of 'error' and 'close' fires
\* first, and its request has exactly one frame, an error of code -32603,
\* from then on -- also after the other event has fired; no tools/call has
\* more than one frame.
C20_OneSpawnOneSettlement ==
  /\ [](/\ Len(procs) = Len(reqs)
        /\ \A i \in Requests :
             /\ procs[i].spawned => KnownToolCall(reqs[i])
             /\ Cardinality(FramesFor(i)) <= 1
             /\ SpawnFailed(i) =>
                  IF procs[i].errorFired \/ procs[i].closed
                  THEN /\ procs[i].settled = "rejected"
                       /\ \E k \in 1..Len(out) :
                            /\ FramesFor(i) = {k}
                            /\ IsError(out[k]) /\ out[k].error.code = -32603
                  ELSE /\ procs[i].settled = "pending"
                       /\ FramesFor(i) = {})
  /\ [][\A i \in Requests :
          /\ procs'[i].spawned = procs[i].spawned
          /\ procs'[i].spawnOk = procs[i].spawnOk
          /\ procs'[i].cliArgs = procs[i].cliArgs
          /\ procs[i].settled \in {"resolved", "rejected"} =>
               /\ procs'[i].settled = procs[i].settled
               /\ {k \in 1..Len(out') : out'[k].id = i} = FramesFor(i)]_vars

\* C20's case: two commands could not be started and for both 'error' and
\* 'close' have fired, for one 'error' first and for the other 'close' first;
\* each request has its one error frame.
C20_Witness ==
  \E i, j \in Requests :
    /\ SpawnFailed(i) /\ procs[i].errorFired /\ procs[i].closed
    /\ SpawnFailed(j) /\ procs[j].errorFired /\ procs[j].closed
    /\ \E k \in 1..Len(out) :
         FramesFor(i) = {k} /\ out[k].error.message = "spawn codex ENOENT"
    /\ \E k \in 1..Len(out) :
         /\ FramesFor(j) = {k}
         /\ out[k].error.message =
              LabelOf(procs[j].tool) \o " exited with code " \o ToString(SpawnFailCode)
====
